---- MODULE Spec2Model ----
(***************************************************************************)
(* Model of cpe_parser.py: unbinding of a CPE 2.3 formatted string into    *)
(* its eleven attributes.  Strings are sequences of one-character strings. *)
(* One call of process_cpe_str is a run of the state machine: the regular  *)
(* expression match, the loop of unbind over the eleven items, and, for a  *)
(* literal value, the scan loop of add_quoting, one iteration per step.    *)
(***************************************************************************)
EXTENDS Integers, Sequences, FiniteSets, TLC

VARIABLES
    cpe_string,     \* argument of process_cpe_str
    pc,             \* position: "start", "unbind", "quoting", "done", "failed"
    error,          \* which ValueError was raised ("" while none)
    unbind_result,  \* the dict `result` of unbind, a sequence of (key, value)
    k,              \* position of unbind's for loop in the dict (1..11)
    string,         \* add_quoting: its argument
    idx,            \* add_quoting: cursor (0-based, as in the source)
    result,         \* add_quoting: output built so far
    embedded,       \* add_quoting: flag
    returned,       \* value returned by process_cpe_str (<<>> while none)
    caller,         \* who called add_quoting: "unbind", "first", "second"
    first,          \* result of the first of two direct add_quoting calls
    run,            \* 1 for a call of process_cpe_str, 2 for the repeated call
    prev            \* record returned by run 1, kept for run 2

vars == <<cpe_string, pc, error, unbind_result, k, string, idx, result,
          embedded, returned, caller, first, run, prev>>

-----------------------------------------------------------------------------
(* Bounds of the model *)

\* longest component (segment) with freely chosen content
MaxLen == 4
\* largest number of segments written after the part indicator
MaxSegs == 12
\* longest text appended after a further colon by the repeated call
MaxTail == 1

-----------------------------------------------------------------------------
(* Characters *)

\* the letters and digits that occur in the model's inputs
Alnum == {"a", "h", "o", "c", "p", "e", "x", "2", "3"}

\* the test without its second disjunct
IsUnreservedNoUnderscore(c) == c \in Alnum

\* char.isalnum() or char == "_"
IsUnreserved(c) == c \in Alnum \/ c = "_"

Min(a, b) == IF a < b THEN a ELSE b

RECURSIVE Strings(_, _)
\* all strings over the alphabet A of length at most n
Strings(A, n) ==
    IF n = 0 THEN {<<>>}
    ELSE LET S == Strings(A, n - 1)
         IN  S \cup {Append(s, c) : s \in {t \in S : Len(t) = n - 1}, c \in A}

-----------------------------------------------------------------------------
(* The regular expression of process_cpe_str and re.match *)

Lit(c) == [type |-> "lit", ch |-> c]
Dot == [type |-> "dot"]
OneOf(S) == [type |-> "set", chars |-> S]
StarNot(S) == [type |-> "star", excl |-> S]

Seg == <<Lit(":"), StarNot({":"})>>

\* the pattern with the colon before the last group missing
cpe_pattern_missing_colon ==
    <<Lit("c"), Lit("p"), Lit("e"), Lit(":"), Lit("2"), Dot, Lit("3"), Lit(":"),
      OneOf({"a", "h", "o"})>>
    \o Seg \o Seg \o Seg \o Seg \o Seg \o Seg \o Seg \o Seg \o Seg
    \o <<StarNot({":"})>>

\* the pattern with a last group that takes the rest of the line
cpe_pattern_greedy_tail ==
    <<Lit("c"), Lit("p"), Lit("e"), Lit(":"), Lit("2"), Dot, Lit("3"), Lit(":"),
      OneOf({"a", "h", "o"})>>
    \o Seg \o Seg \o Seg \o Seg \o Seg \o Seg \o Seg \o Seg \o Seg
    \o <<Lit(":"), StarNot({"\n"})>>

\* r"cpe:2.3:([aho]):([^:]*): ... :([^:]*)", ten [^:]* groups
cpe_2_3_formatted_pattern ==
    <<Lit("c"), Lit("p"), Lit("e"), Lit(":"), Lit("2"), Dot, Lit("3"), Lit(":"),
      OneOf({"a", "h", "o"})>>
    \o Seg \o Seg \o Seg \o Seg \o Seg \o Seg \o Seg \o Seg \o Seg \o Seg

NoMatch == [ok |-> FALSE, groups |-> <<>>]

RECURSIVE MatchFrom(_, _, _, _, _)
RECURSIVE MatchStar(_, _, _, _, _, _)

\* the longest run of characters outside excl starting at position i ends
\* before RunEnd
RECURSIVE RunEnd(_, _, _)
RunEnd(s, i, excl) ==
    IF i > Len(s) \/ s[i] \in excl THEN i ELSE RunEnd(s, i + 1, excl)

\* match tokens t..Len(pat) of pat against s from position i (1-based);
\* g are the groups captured so far
MatchFrom(pat, t, s, i, g) ==
    IF t > Len(pat) THEN [ok |-> TRUE, groups |-> g]
    ELSE LET tok == pat[t] IN
         CASE tok.type = "lit" ->
                IF i <= Len(s) /\ s[i] = tok.ch
                THEN MatchFrom(pat, t + 1, s, i + 1, g) ELSE NoMatch
           [] tok.type = "dot" ->
                IF i <= Len(s) /\ s[i] # "\n"
                THEN MatchFrom(pat, t + 1, s, i + 1, g) ELSE NoMatch
           [] tok.type = "set" ->
                IF i <= Len(s) /\ s[i] \in tok.chars
                THEN MatchFrom(pat, t + 1, s, i + 1, Append(g, <<s[i]>>))
                ELSE NoMatch
           [] tok.type = "star" ->
                MatchStar(pat, t, s, i, RunEnd(s, i, tok.excl), g)

\* greedy repetition with backtracking: the group is s[i..j-1], longest first
MatchStar(pat, t, s, i, j, g) ==
    LET m == MatchFrom(pat, t + 1, s, j, Append(g, SubSeq(s, i, j - 1)))
    IN  IF m.ok THEN m
        ELSE IF j > i THEN MatchStar(pat, t, s, i, j - 1, g)
        ELSE NoMatch

\* re.match(pattern, s): anchored at the start of s only
re_match(pattern, s) == MatchFrom(pattern, 1, s, 1, <<>>)

-----------------------------------------------------------------------------
(* Constants of the program *)

\* a key with the spelling of the comment at src/cpe_parser.py:14
KeysMisspelt ==
    <<"part", "vendor", "product", "version", "update", "edition",
      "lanuguage", "sw_edition", "target_sw", "target_hw", "other">>

\* keys of the dict built by unbind, in insertion order
Keys ==
    <<"part", "vendor", "product", "version", "update", "edition",
      "language", "sw_edition", "target_sw", "target_hw", "other">>

\* Python's None, which is not a string
None == <<"None">>

ANY == <<"A", "N", "Y">>
NA == <<"N", "A">>

InvalidFormat == "The CPE string has an invalid format"
EmptyValue == "Empty value is not valid"
UnquotedAsterisk == "Unquoted asterisk must appear at the beggining or end of a component"
UnquotedQuestionMark == "Unquoted question mark must appear at the beginning or end of the string, or in a leading or trailing sequence"

-----------------------------------------------------------------------------
(* Inputs *)

Header == <<"c", "p", "e", ":", "2", ".", "3", ":">>

\* characters written over one position of the header
HeaderSubst == {"x", ":", "\n"}

\* the header of test_invalid_missing_version
HeaderNoVersion == <<"c", "p", "e", ":", ":">>

Headers ==
    {Header, HeaderNoVersion}
    \cup {[Header EXCEPT ![i] = c] : i \in 1..Len(Header), c \in HeaderSubst}

PartChars == {"a", "h", "o", "x", "*"}

\* characters of a freely chosen component
SegChars == {"a", ".", "\\", "*", "?"}

Components == Strings(SegChars, MaxLen)

\* components every segment of a structural input is filled with
Fills == {<<"*">>, <<"-">>, <<>>, <<"a", "_", "-", ".">>}

RECURSIVE Join(_)
\* ":" seg1 ":" seg2 ...
Join(segs) ==
    IF segs = <<>> THEN <<>>
    ELSE <<":">> \o Head(segs) \o Join(Tail(segs))

\* inputs that vary the structure: header, part indicator, number of segments
StructuralInputs ==
    {h \o <<pt>> \o Join([i \in 1..n |-> f]) :
        h \in Headers, pt \in PartChars, n \in 0..MaxSegs, f \in Fills}

\* the ten segments of test_valid_multiple_dots_and_hyphens and
\* test_valid_hyphen_ios, shortened
Background ==
    <<<<"-">>, <<"a", "_", "a">>, <<"a", "-", "2", ".">>, <<"-">>, <<"*">>,
      <<"-">>, <<".">>, <<>>, <<".">>, <<"*">>>>

\* inputs that vary the content of one segment among ten
ContentInputs ==
    {Header \o <<"a">> \o Join([Background EXCEPT ![p] = s]) :
        p \in 1..10, s \in Components}

\* inputs of the repeated call: the last segment varies
TailInputs ==
    StructuralInputs
    \cup {Header \o <<"o">> \o Join([Background EXCEPT ![10] = s]) :
            s \in Components}

Inputs == StructuralInputs \cup ContentInputs

\* text appended after a further colon
Tails == Strings({"a", ":"}, MaxTail)

-----------------------------------------------------------------------------
(* State machine *)

\* everything but the argument, at the call of process_cpe_str
AtCall ==
    /\ pc = "start"
    /\ error = ""
    /\ unbind_result = <<>>
    /\ k = 0
    /\ string = <<>>
    /\ idx = 0
    /\ result = <<>>
    /\ embedded = FALSE
    /\ returned = <<>>
    /\ caller = "unbind"
    /\ first = <<>>
    /\ run = 1
    /\ prev = <<>>

Init == cpe_string \in Inputs /\ AtCall

InitTail == cpe_string \in TailInputs /\ AtCall

\* a direct call add_quoting(s)
InitQuote ==
    /\ cpe_string = <<>>
    /\ pc = "quoting"
    /\ error = ""
    /\ unbind_result = <<>>
    /\ k = 0
    /\ string \in Components
    /\ idx = 0
    /\ result = <<>>
    /\ embedded = FALSE
    /\ returned = <<>>
    /\ caller = "first"
    /\ first = <<>>
    /\ run = 1
    /\ prev = <<>>

\* a raised ValueError leaves process_cpe_str: nothing is returned
Raise(msg) ==
    /\ pc' = "failed"
    /\ error' = msg

\* process_cpe_str up to the call of unbind, and unbind up to its loop
process_cpe_str ==
    /\ pc = "start"
    /\ LET match == re_match(cpe_2_3_formatted_pattern, cpe_string) IN
       IF ~match.ok
       THEN /\ Raise(InvalidFormat)
            /\ UNCHANGED <<unbind_result, k>>
       ELSE /\ unbind_result' =
                [i \in 1..Len(match.groups) |->
                    [key |-> Keys[i], value |-> match.groups[i]]]
            /\ k' = 1
            /\ pc' = "unbind"
            /\ UNCHANGED error
    /\ UNCHANGED <<cpe_string, string, idx, result, embedded, returned,
                   caller, first, run, prev>>

\* unbind_value without the call of add_quoting: the token, or None when
\* the value has to be quoted
unbind_value_swapped(value) ==
    IF value = <<"*">> THEN NA
    ELSE IF value = <<"-">> THEN ANY
    ELSE None

unbind_value(value) ==
    IF value = <<"*">> THEN ANY
    ELSE IF value = <<"-">> THEN NA
    ELSE None

\* one iteration of unbind's loop, up to the return of unbind_value or the
\* entry of add_quoting
unbind_item ==
    /\ pc = "unbind"
    /\ k <= Len(unbind_result)
    /\ LET v == unbind_result[k].value IN
       IF v = None
       THEN /\ Raise(EmptyValue)
            /\ UNCHANGED <<unbind_result, k, string, idx, result, embedded>>
       ELSE IF unbind_value(v) # None
       THEN /\ unbind_result' =
                [unbind_result EXCEPT ![k].value = unbind_value(v)]
            /\ k' = k + 1
            /\ UNCHANGED <<pc, error, string, idx, result, embedded>>
       ELSE /\ string' = v
            /\ idx' = 0
            /\ result' = <<>>
            /\ embedded' = FALSE
            /\ pc' = "quoting"
            /\ UNCHANGED <<error, unbind_result, k>>
    /\ UNCHANGED <<cpe_string, returned, caller, first, run, prev>>

\* add_quoting's loop condition and char = string[idx]
InLoop == pc = "quoting" /\ idx < Len(string)
char == string[idx + 1]

QuoteFrame == <<cpe_string, unbind_result, k, string, returned, caller,
                first, run, prev>>

\* an unreserved character is copied
quote_unreserved ==
    /\ InLoop
    /\ IsUnreserved(char)
    /\ result' = Append(result, char)
    /\ idx' = idx + 1
    /\ embedded' = TRUE
    /\ UNCHANGED <<pc, error>>
    /\ UNCHANGED QuoteFrame

\* a backslash and the character after it (if any) are copied
quote_escaped ==
    /\ InLoop
    /\ ~IsUnreserved(char)
    /\ char = "\\"
    /\ result' = result \o SubSeq(string, idx + 1, Min(idx + 2, Len(string)))
    /\ idx' = idx + 2
    /\ embedded' = TRUE
    /\ UNCHANGED <<pc, error>>
    /\ UNCHANGED QuoteFrame

\* an asterisk is copied at the first or last position, an error elsewhere
quote_asterisk ==
    /\ InLoop
    /\ ~IsUnreserved(char)
    /\ char = "*"
    /\ IF idx = 0 \/ idx = Len(string) - 1
       THEN /\ result' = Append(result, char)
            /\ idx' = idx + 1
            /\ embedded' = TRUE
            /\ UNCHANGED <<pc, error>>
       ELSE /\ Raise(UnquotedAsterisk)
            /\ UNCHANGED <<result, idx, embedded>>
    /\ UNCHANGED QuoteFrame

\* the condition of the if statement at the question mark
QuestionMarkAllowed ==
    \/ idx = 0
    \/ idx = Len(string) - 1
    \/ (~embedded /\ string[idx] = "?")
    \/ (embedded /\ string[idx + 2] = "?")

\* a question mark: the accepting branch has no continue, so the iteration
\* goes on into the statements that quote the character
quote_question ==
    /\ InLoop
    /\ ~IsUnreserved(char)
    /\ char = "?"
    /\ IF QuestionMarkAllowed
       THEN /\ result' = Append(result, char) \o <<"\\", char>>
            /\ idx' = (idx + 1) + 1
            /\ embedded' = TRUE
            /\ UNCHANGED <<pc, error>>
       ELSE /\ Raise(UnquotedQuestionMark)
            /\ UNCHANGED <<result, idx, embedded>>
    /\ UNCHANGED QuoteFrame

\* any other character is written after a backslash
quote_other ==
    /\ InLoop
    /\ ~IsUnreserved(char)
    /\ char \notin {"\\", "*", "?"}
    /\ result' = result \o <<"\\", char>>
    /\ idx' = idx + 1
    /\ embedded' = TRUE
    /\ UNCHANGED <<pc, error>>
    /\ UNCHANGED QuoteFrame

\* add_quoting returns to unbind, which stores the value under the key
add_quoting_return ==
    /\ pc = "quoting"
    /\ idx >= Len(string)
    /\ caller = "unbind"
    /\ unbind_result' = [unbind_result EXCEPT ![k].value = result]
    /\ k' = k + 1
    /\ pc' = "unbind"
    /\ UNCHANGED <<cpe_string, error, string, idx, result, embedded,
                   returned, caller, first, run, prev>>

\* the loop of unbind is over: unbind and process_cpe_str return the dict
unbind_return ==
    /\ pc = "unbind"
    /\ k > Len(unbind_result)
    /\ returned' = unbind_result
    /\ pc' = "done"
    /\ UNCHANGED <<cpe_string, error, unbind_result, k, string, idx, result,
                   embedded, caller, first, run, prev>>

\* process_cpe_str is called again with the accepted input, a colon and
\* further text
call_with_tail ==
    /\ pc = "done"
    /\ run = 1
    /\ caller = "unbind"
    /\ \E t \in Tails : cpe_string' = cpe_string \o <<":">> \o t
    /\ prev' = returned
    /\ run' = 2
    /\ pc' = "start"
    /\ error' = ""
    /\ unbind_result' = <<>>
    /\ k' = 0
    /\ string' = <<>>
    /\ idx' = 0
    /\ result' = <<>>
    /\ embedded' = FALSE
    /\ returned' = <<>>
    /\ UNCHANGED <<caller, first>>

\* the first direct call of add_quoting returns; its result is the argument
\* of a second call
quote_again ==
    /\ pc = "quoting"
    /\ idx >= Len(string)
    /\ caller = "first"
    /\ first' = result
    /\ string' = result
    /\ idx' = 0
    /\ result' = <<>>
    /\ embedded' = FALSE
    /\ caller' = "second"
    /\ UNCHANGED <<cpe_string, pc, error, unbind_result, k, returned, run,
                   prev>>

\* the second direct call of add_quoting returns
quote_finish ==
    /\ pc = "quoting"
    /\ idx >= Len(string)
    /\ caller = "second"
    /\ pc' = "done"
    /\ UNCHANGED <<cpe_string, error, unbind_result, k, string, idx, result,
                   embedded, returned, caller, first, run, prev>>

add_quoting_step ==
    \/ quote_unreserved
    \/ quote_escaped
    \/ quote_asterisk
    \/ quote_question
    \/ quote_other

Next ==
    \/ process_cpe_str
    \/ unbind_item
    \/ quote_unreserved
    \/ quote_escaped
    \/ quote_asterisk
    \/ quote_question
    \/ quote_other
    \/ add_quoting_return
    \/ unbind_return

Spec == Init /\ [][Next]_vars

NextTail == Next \/ call_with_tail

SpecTail == InitTail /\ [][NextTail]_vars

NextQuote ==
    \/ quote_unreserved
    \/ quote_escaped
    \/ quote_asterisk
    \/ quote_question
    \/ quote_other
    \/ quote_again
    \/ quote_finish

SpecQuote == InitQuote /\ [][NextQuote]_vars

-----------------------------------------------------------------------------
(* Vocabulary of the properties, read off the input text alone *)

Colons(s) == {i \in 1..Len(s) : s[i] = ":"}

RECURSIVE SplitColon(_)
\* the colon-delimited fields of s
SplitColon(s) ==
    IF Colons(s) = {} THEN <<s>>
    ELSE LET j == CHOOSE i \in Colons(s) : \A m \in Colons(s) : i <= m
         IN  <<SubSeq(s, 1, j - 1)>> \o SplitColon(SubSeq(s, j + 1, Len(s)))

\* the text is "cpe:2.3:", a part indicator and at least ten further fields
StructurallyValid(s) ==
    /\ Len(s) >= 10
    /\ SubSeq(s, 1, 8) = <<"c", "p", "e", ":", "2", ".", "3", ":">>
    /\ s[9] \in {"a", "h", "o"}
    /\ s[10] = ":"
    /\ Len(SplitColon(s)) >= 13

\* segment i (1 = vendor, ..., 10 = other) of a structurally valid text
Segment(s, i) == SplitColon(s)[3 + i]

IsWordChar(c) ==
    c \in {"a", "h", "o", "c", "p", "e", "x", "2", "3", "_"}

\* the number of backslashes immediately before position i
RECURSIVE BackslashesBefore(_, _)
BackslashesBefore(s, i) ==
    IF i <= 1 \/ s[i - 1] # "\\" THEN 0 ELSE 1 + BackslashesBefore(s, i - 1)

Unescaped(s, i) == BackslashesBefore(s, i) % 2 = 0

Interior(s, i) == 1 < i /\ i < Len(s)

\* neither a token nor a text with a backslash or a wildcard character
Plain(s) ==
    /\ s # <<"*">>
    /\ s # <<"-">>
    /\ \A i \in 1..Len(s) : s[i] \notin {"\\", "*", "?"}

RECURSIVE Backslashed(_)
\* every character that is not a letter, digit or underscore gets one
\* backslash in front
Backslashed(s) ==
    IF s = <<>> THEN <<>>
    ELSE (IF IsWordChar(Head(s)) THEN <<Head(s)>> ELSE <<"\\", Head(s)>>)
         \o Backslashed(Tail(s))

HasInteriorAsterisk(s) ==
    \E i \in 1..Len(s) : s[i] = "*" /\ Unescaped(s, i) /\ Interior(s, i)

\* position i lies in a run of question marks that reaches an end of s
InBoundaryRun(s, i) ==
    \/ \A j \in 1..i : s[j] = "?"
    \/ \A j \in i..Len(s) : s[j] = "?"

HasStrayQuestionMark(s) ==
    \E i \in 1..Len(s) :
        /\ s[i] = "?"
        /\ Unescaped(s, i)
        /\ Interior(s, i)
        /\ ~InBoundaryRun(s, i)

Returned == pc = "done" /\ caller = "unbind"
Failed == pc = "failed"

-----------------------------------------------------------------------------
(* Properties *)

\* C1: when process_cpe_str returns for a structurally valid input, the part
\* is returned as the input's a, h or o, and every segment that is neither
\* "*" nor "-" and has no backslash, asterisk or question mark is returned
\* with its letters, digits and underscores unchanged and every other
\* character preceded by exactly one backslash.
C1_PlainSegmentsBackslashed ==
    (Returned /\ StructurallyValid(cpe_string)) =>
        /\ returned[1].value = <<cpe_string[9]>>
        /\ \A i \in 1..10 :
              Plain(Segment(cpe_string, i)) =>
                  returned[i + 1].value = Backslashed(Segment(cpe_string, i))

C1_Witness ==
    /\ Returned
    /\ StructurallyValid(cpe_string)
    /\ \E i \in 1..10 :
          LET seg == Segment(cpe_string, i) IN
          /\ Plain(seg)
          /\ \E j \in 1..Len(seg) : IsWordChar(seg[j])
          /\ \E j \in 1..Len(seg) : ~IsWordChar(seg[j])
          /\ Len(returned[i + 1].value) > Len(seg)

\* C2: when process_cpe_str returns for a structurally valid input, every
\* segment that is exactly "*" is returned as ANY and every segment that is
\* exactly "-" is returned as NA.
C2_TokensClassified ==
    (Returned /\ StructurallyValid(cpe_string)) =>
        \A i \in 1..10 :
            /\ Segment(cpe_string, i) = <<"*">> =>
                  returned[i + 1].value = <<"A", "N", "Y">>
            /\ Segment(cpe_string, i) = <<"-">> =>
                  returned[i + 1].value = <<"N", "A">>

C2_Witness ==
    /\ Returned
    /\ StructurallyValid(cpe_string)
    /\ \E i, j, m \in 1..10 :
          /\ Segment(cpe_string, i) = <<"*">>
          /\ Segment(cpe_string, j) = <<"-">>
          /\ Len(Segment(cpe_string, m)) > 1
          /\ returned[i + 1].value = <<"A", "N", "Y">>
          /\ returned[j + 1].value = <<"N", "A">>

\* C3: a structurally valid input with a segment that has an unescaped
\* asterisk at an interior position is never answered with a record (the
\* claim names the misplaced-asterisk error; here any failure is allowed, so
\* that only a returned record violates the statement).
C3_InteriorAsteriskFails ==
    Returned =>
        ~(/\ StructurallyValid(cpe_string)
          /\ \E i \in 1..10 : HasInteriorAsterisk(Segment(cpe_string, i)))

\* C4: a structurally valid input with a segment that has an unescaped
\* question mark at an interior position, outside every run of question
\* marks that reaches the start or the end of the segment, is never answered
\* with a record.
C4_StrayQuestionMarkFails ==
    Returned =>
        ~(/\ StructurallyValid(cpe_string)
          /\ \E i \in 1..10 : HasStrayQuestionMark(Segment(cpe_string, i)))

\* C5: an input with fewer than ten colons after the position of the part
\* indicator fails with the invalid-format error, and no segment has been
\* classified or quoted by then.
C5_TooFewSegmentsInvalidFormat ==
    Cardinality({i \in Colons(cpe_string) : i > 9}) < 10 =>
        /\ pc \in {"start", "failed"}
        /\ pc = "failed" => error = InvalidFormat
        /\ unbind_result = <<>>
        /\ k = 0
        /\ string = <<>> /\ result = <<>> /\ idx = 0
        /\ returned = <<>>

C5_Witness ==
    /\ Failed
    /\ error = InvalidFormat
    /\ Len(cpe_string) >= 10
    /\ SubSeq(cpe_string, 1, 10) =
          <<"c", "p", "e", ":", "2", ".", "3", ":", "a", ":">>
    /\ Cardinality({i \in Colons(cpe_string) : i > 9}) = 9
    /\ \E i \in 11..Len(cpe_string) : cpe_string[i] = "*"

\* C6: a record is returned only for an input whose first eight characters
\* are exactly "cpe:2.3:", whose ninth is a, h or o and whose tenth is a
\* colon; every other input fails, and with the invalid-format error.
C6_PrefixExact ==
    LET exact ==
          /\ Len(cpe_string) >= 10
          /\ SubSeq(cpe_string, 1, 8) = <<"c", "p", "e", ":", "2", ".", "3", ":">>
          /\ cpe_string[9] \in {"a", "h", "o"}
          /\ cpe_string[10] = ":"
    IN  /\ Returned => exact
        /\ (Failed /\ ~exact) => error = InvalidFormat

\* C7: a returned record has exactly the eleven keys part, vendor, product,
\* version, update, edition, language, sw_edition, target_sw, target_hw,
\* other, in this order, each bound to a string, none to None; until
\* process_cpe_str returns, and after a failure, there is no record at all.
C7_RecordShape ==
    /\ Returned =>
          /\ [i \in 1..Len(returned) |-> returned[i].key] =
                <<"part", "vendor", "product", "version", "update", "edition",
                  "language", "sw_edition", "target_sw", "target_hw", "other">>
          /\ \A i \in 1..Len(returned) :
                /\ returned[i].value # <<"None">>
                /\ \A j \in 1..Len(returned[i].value) :
                      returned[i].value[j] \in
                          {"a", "h", "o", "2", "_", "-", ".", "\\", "*", "?",
                           "A", "N", "Y"}
    /\ ~Returned => returned = <<>>

C7_Witness ==
    /\ Returned
    /\ Len(returned) = 11
    /\ \E i, j \in 1..11 :
          /\ returned[i].value = <<"A", "N", "Y">>
          /\ Len(returned[j].value) > 3

C7_FailureWitness ==
    /\ Failed
    /\ error = UnquotedAsterisk
    /\ k > 2
    /\ returned = <<>>

\* C8: an iteration of add_quoting's loop at a validly placed question mark
\* (first position, last position, after a question mark of a leading run,
\* or before a question mark after embedded text) appends exactly one "?",
\* advances the cursor by one and leaves embedded false.
C8_QuestionMarkStep ==
    [][(/\ pc = "quoting"
        /\ idx < Len(string)
        /\ string[idx + 1] = "?"
        /\ \/ idx = 0
           \/ idx = Len(string) - 1
           \/ (~embedded /\ string[idx] = "?")
           \/ (embedded /\ string[idx + 2] = "?"))
       => (/\ result' = Append(result, "?")
           /\ idx' = idx + 1
           /\ embedded' = FALSE)]_vars

\* C9: for every component that add_quoting accepts, add_quoting of the
\* result succeeds too and returns the result unchanged.
C9_QuotingIdempotent ==
    caller = "second" =>
        /\ ~Failed
        /\ pc = "done" => result = first

\* C10: if process_cpe_str returns a record for an input, it returns the
\* same record for that input followed by a colon and any further text.
C10_TailIgnored ==
    (run = 2 /\ pc # "start") =>
        /\ ~Failed
        /\ pc = "done" => returned = prev

C10_Witness ==
    /\ run = 2
    /\ pc = "done"
    /\ returned = prev
    /\ cpe_string[Len(cpe_string)] = "a"
    /\ \E i \in 1..11 : Len(returned[i].value) > 3

====
